---- MODULE Spec2Model ----
(***************************************************************************)
(* Model of internal/server/log/store.go: an append-only record store over *)
(* one file, a bufio.Writer and a mutex.  The state is the file's bytes,   *)
(* the file handle, the buffered writer (buffer and sticky error), the     *)
(* size counter, the mutex and, for every calling goroutine, the call it   *)
(* is in and how far it got.                                               *)
(***************************************************************************)
EXTENDS Integers, Sequences, FiniteSets, TLC

\* ---------------------------------------------------------------- constants
\* Width of the length prefix of a record (const lenWidth).
lenWidth == 8

\* ------------------------------------------------------------------- bounds
\* Capacity of the bufio.Writer made by bufio.NewWriter (4096 in the Go
\* library), scaled down so that a frame can straddle the buffer.
BufSize == 9
\* Number of Append calls issued over a behaviour.
MaxAppends == 2

\* The calling goroutines.
Threads == {1, 2}
\* Lengths of the destination slice handed to ReadAt.
DestLens == {0, 2}
\* Bytes a failing disk still takes during one operation.
Rooms == {0, 1}
\* A payload longer than the buffer: its first eight bytes decode, as a
\* big-endian length, to 1.
LongPayload == [i \in 1..(BufSize + 2) |-> IF i < lenWidth THEN 0 ELSE 1]
Payloads == {<<>>, <<1>>, LongPayload}

\* Disk behaviour during one operation: healthy, or failing once `room` more
\* bytes have been written (a short write, as on a full disk).
NoFault == [fails |-> FALSE, room |-> 0]
Faults == {NoFault} \cup {[fails |-> TRUE, room |-> n] : n \in Rooms}

VARIABLES
    file,       \* bytes of the file on disk
    closed,     \* the os.File has been closed
    buf,        \* bytes held by the bufio.Writer (b.buf[0:b.n])
    berr,       \* the bufio.Writer's sticky error (b.err # nil)
    size,       \* store.size
    mu,         \* store.mu: 0 when free, else the goroutine holding it
    pc,         \* per goroutine: where it is in its call
    op,         \* per goroutine: the call it is in
    ret,        \* per goroutine: what its call is about to return
    initFile,   \* history: the file's bytes when the store was constructed
    appended,   \* history: <<pos, payload>> of each successful Append
    nCalls,     \* history: number of Append calls issued
    closeReturned, \* history: some Close has returned nil
    prior       \* history: the store as its Close left it, and whether a
                \* new store has since been constructed over its file

vars == <<file, closed, buf, berr, size, mu, pc, op, ret,
          initFile, appended, nCalls, closeReturned, prior>>

\* ------------------------------------------------------------ byte helpers
Min(a, b) == IF a < b THEN a ELSE b
Max(a, b) == IF a > b THEN a ELSE b
Drop(s, n) == SubSeq(s, n + 1, Len(s))
Take(s, n) == SubSeq(s, 1, n)

\* enc.PutUint64 as used by binary.Write: the big-endian bytes of v.
\* Lengths of the model stay below 2^24, so the five high bytes are 0.
PutUint64(v) ==
    <<0, 0, 0, 0, 0, (v \div 65536) % 256, (v \div 256) % 256, v % 256>>

\* enc.Uint64 on eight bytes.  The value is kept exactly when it is below
\* 2^24 (HighZero); above that only its relation to the allocation limit of
\* make([]byte, n) matters.
HighZero(b) == \A i \in 1..5 : b[i] = 0
Uint64Low(b) == b[6] * 65536 + b[7] * 256 + b[8]
\* The decoded value exceeds 2^48, the largest length make([]byte, n) accepts.
ExceedsMaxAlloc(b) ==
    \/ b[1] # 0
    \/ b[2] > 1
    \/ b[2] = 1 /\ \E i \in 3..8 : b[i] # 0

\* One record on disk: length prefix, then payload.
Frame(p) == PutUint64(Len(p)) \o p

\* ------------------------------------------------------ os.File (library)
\* The writer-side state an operation works on: the store's file and
\* buffered writer, the disk's behaviour d, and the (n, err) of the last call.
WState(d) ==
    [file |-> file, closed |-> closed, buf |-> buf, err |-> berr,
     d |-> d, n |-> 0, e |-> FALSE]

\* os.File.Write(b): the handle is positioned at the end of the file (it is
\* opened for appending), so b lands after the bytes already there.  A closed file takes
\* nothing and fails; a failing disk takes the bytes it has room for and fails.
FileWrite(st, b) ==
    IF st.closed
    THEN [st EXCEPT !.n = 0, !.e = TRUE]
    ELSE IF st.d.fails /\ st.d.room < Len(b)
    THEN [st EXCEPT !.file = @ \o Take(b, st.d.room), !.d.room = 0,
                    !.n = st.d.room, !.e = TRUE]
    ELSE [st EXCEPT !.file = @ \o b,
                    !.d.room = IF st.d.fails THEN @ - Len(b) ELSE @,
                    !.n = Len(b), !.e = FALSE]

\* os.File.ReadAt(b, off) with len(b) = n: [n |-> bytes read, e |-> error,
\* data |-> the bytes read].  A negative offset fails; an empty b reads
\* nothing and succeeds, on a closed file too; a closed file fails; fewer than
\* n bytes at off is io.EOF.
FileReadAt(f, isClosed, n, off) ==
    IF off < 0 THEN [n |-> 0, e |-> TRUE, data |-> <<>>]
    ELSE IF n = 0 THEN [n |-> 0, e |-> FALSE, data |-> <<>>]
    ELSE IF isClosed THEN [n |-> 0, e |-> TRUE, data |-> <<>>]
    ELSE LET have == Max(0, Min(n, Len(f) - off)) IN
         [n |-> have, e |-> have < n, data |-> SubSeq(f, off + 1, off + have)]

\* ------------------------------------------------- bufio.Writer (library)
Available(st) == BufSize - Len(st.buf)

\* Flush as it would be if a short write discarded what it left behind.
Flush_DropRemainder(st) ==
    IF st.err THEN [st EXCEPT !.e = TRUE]
    ELSE IF Len(st.buf) = 0 THEN [st EXCEPT !.e = FALSE]
    ELSE LET r == FileWrite(st, st.buf) IN
         IF r.e
         THEN [r EXCEPT !.buf = <<>>, !.err = TRUE, !.e = TRUE]
         ELSE [r EXCEPT !.buf = <<>>, !.e = FALSE]

\* Flush as it would be if it did not look at the sticky error first.
Flush_NotSticky(st) ==
    IF Len(st.buf) = 0 THEN [st EXCEPT !.e = FALSE]
    ELSE LET r == FileWrite(st, st.buf) IN
         IF r.e
         THEN [r EXCEPT !.buf = Drop(st.buf, r.n), !.err = TRUE, !.e = TRUE]
         ELSE [r EXCEPT !.buf = <<>>, !.e = FALSE]

\* bufio.Writer.Flush: the sticky error if set; else writes the buffer to
\* the file, keeps what a short write left behind and sets the sticky error.
Flush(st) ==
    IF st.err THEN [st EXCEPT !.e = TRUE]
    ELSE IF Len(st.buf) = 0 THEN [st EXCEPT !.e = FALSE]
    ELSE LET r == FileWrite(st, st.buf) IN
         IF r.e
         THEN [r EXCEPT !.buf = Drop(st.buf, r.n), !.err = TRUE, !.e = TRUE]
         ELSE [r EXCEPT !.buf = <<>>, !.e = FALSE]

\* bufio.Writer.Write(p): while p does not fit, either writes p straight to
\* the file (empty buffer) or fills the buffer and flushes it; then copies
\* the rest into the buffer.  nn is the count of bytes taken so far.
RECURSIVE BufWriteFrom(_, _, _)
BufWriteFrom(st, p, nn) ==
    IF Len(p) > Available(st) /\ ~st.err
    THEN IF Len(st.buf) = 0
         THEN LET r == FileWrite(st, p) IN
              BufWriteFrom([r EXCEPT !.err = r.e], Drop(p, r.n), nn + r.n)
         ELSE LET k == Available(st)
                  r == Flush([st EXCEPT !.buf = @ \o Take(p, k)]) IN
              BufWriteFrom(r, Drop(p, k), nn + k)
    ELSE IF st.err
    THEN [st EXCEPT !.n = nn, !.e = TRUE]
    ELSE [st EXCEPT !.buf = @ \o p, !.n = nn + Len(p), !.e = FALSE]

BufWrite(st, p) == BufWriteFrom(st, p, 0)

\* ------------------------------------------------------------------ calls
NoOp == [name |-> "none", p |-> <<>>, pos |-> 0, n |-> 0, off |-> 0,
         lpos |-> 0, postClose |-> FALSE]
\* kind: "ok" (nil error), "err" (non-nil error), "panic" (the call panics;
\* the deferred Unlock still runs).  n, pos, data: the values returned.
NoRet == [kind |-> "none", n |-> 0, pos |-> 0, data |-> <<>>]
Ok(n, pos, data) == [kind |-> "ok", n |-> n, pos |-> pos, data |-> data]
Err(n) == [kind |-> "err", n |-> n, pos |-> 0, data |-> <<>>]
Panic == [kind |-> "panic", n |-> 0, pos |-> 0, data |-> <<>>]

\* The logical byte stream: what is on disk, then what is buffered.
Stream == file \o buf

\* Files the store may be constructed over: a new one, or one that holds a
\* record already.
InitFiles == {<<>>, Frame(<<1>>)}

\* Nothing closed yet.  size and recs are store.size and the successful
\* Appends at the moment s.File.Close() closed the file.
NoPrior == [size |-> 0, recs |-> <<>>, reopened |-> FALSE]

\* newStore: size is the file's length, the buffer is empty.  size is a
\* uint64; the model's sizes stay far below 2^64, so no step wraps.
Init ==
    /\ file \in InitFiles
    /\ closed = FALSE
    /\ buf = <<>>
    /\ berr = FALSE
    /\ size = Len(file)
    /\ mu = 0
    /\ pc = [t \in Threads |-> "idle"]
    /\ op = [t \in Threads |-> NoOp]
    /\ ret = [t \in Threads |-> NoRet]
    /\ initFile = file
    /\ appended = <<>>
    /\ nCalls = 0
    /\ closeReturned = FALSE
    /\ prior = NoPrior

\* The writer-side variables take the values an operation left in st.
SetWriter(st) ==
    /\ file' = st.file
    /\ buf' = st.buf
    /\ berr' = st.err

\* A goroutine calls Append, Read, ReadAt or Close.  The arguments of the
\* call are drawn where the body first uses them.
Call(t, name) ==
    /\ pc[t] = "idle"
    /\ name = "Append" => nCalls < MaxAppends
    /\ nCalls' = IF name = "Append" THEN nCalls + 1 ELSE nCalls
    /\ op' = [op EXCEPT ![t] = [NoOp EXCEPT !.name = name,
                                            !.postClose = closeReturned]]
    /\ pc' = [pc EXCEPT ![t] = "lock"]
    /\ UNCHANGED <<file, closed, buf, berr, size, mu, ret, initFile, prior, appended,
                   closeReturned>>

CallAppend(t) == Call(t, "Append")
CallRead(t) == Call(t, "Read")
CallReadAt(t) == Call(t, "ReadAt")
CallClose(t) == Call(t, "Close")

\* Lock as it would be if the mutex did not exclude: the call enters its body
\* while another goroutine is inside its own.
Lock_NoExclusion(t) ==
    /\ pc[t] = "lock"
    /\ mu' = t
    /\ pc' = [pc EXCEPT ![t] = op[t].name]
    /\ UNCHANGED <<file, closed, buf, berr, size, op, ret, initFile, prior, appended,
                   nCalls, closeReturned>>

\* s.mu.Lock(): waits until the mutex is free, then takes it and enters the
\* body of the call.
Lock(t) ==
    /\ pc[t] = "lock"
    /\ mu = 0
    /\ mu' = t
    /\ pc' = [pc EXCEPT ![t] = op[t].name]
    /\ UNCHANGED <<file, closed, buf, berr, size, op, ret, initFile, prior, appended,
                   nCalls, closeReturned>>

\* Append, first half: pos = s.size; binary.Write of the length prefix.
AppendPrefix(t) ==
    /\ pc[t] = "Append"
    /\ \E d \in Faults, p \in Payloads :
         LET st == BufWrite(WState(d), PutUint64(Len(p))) IN
         /\ SetWriter(st)
         /\ op' = [op EXCEPT ![t].p = p, ![t].lpos = size]
         /\ IF st.e
            THEN /\ ret' = [ret EXCEPT ![t] = Err(0)]
                 /\ pc' = [pc EXCEPT ![t] = "unlock"]
            ELSE /\ ret' = ret
                 /\ pc' = [pc EXCEPT ![t] = "AppendPayload"]
    /\ UNCHANGED <<closed, size, mu, initFile, prior, appended, nCalls,
                   closeReturned>>

\* AppendPayload as it would be without `w += lenWidth`.
AppendPayload_NoPrefixCount(t) ==
    /\ pc[t] = "AppendPayload"
    /\ \E d \in Faults :
         LET st == BufWrite(WState(d), op[t].p) IN
         /\ SetWriter(st)
         /\ IF st.e
            THEN /\ ret' = [ret EXCEPT ![t] = Err(0)]
                 /\ UNCHANGED <<size, appended>>
            ELSE /\ size' = size + st.n
                 /\ ret' = [ret EXCEPT ![t] = Ok(st.n, op[t].lpos, <<>>)]
                 /\ appended' = Append(appended, <<op[t].lpos, op[t].p>>)
    /\ pc' = [pc EXCEPT ![t] = "unlock"]
    /\ UNCHANGED <<closed, mu, op, initFile, prior, nCalls, closeReturned>>

\* AppendPayload as it would be if size were advanced before the error check.
AppendPayload_SizeFirst(t) ==
    /\ pc[t] = "AppendPayload"
    /\ \E d \in Faults :
         LET st == BufWrite(WState(d), op[t].p) IN
         /\ SetWriter(st)
         /\ size' = size + (st.n + lenWidth)
         /\ IF st.e
            THEN /\ ret' = [ret EXCEPT ![t] = Err(0)]
                 /\ UNCHANGED appended
            ELSE /\ ret' = [ret EXCEPT ![t] =
                                Ok(st.n + lenWidth, op[t].lpos, <<>>)]
                 /\ appended' = Append(appended, <<op[t].lpos, op[t].p>>)
    /\ pc' = [pc EXCEPT ![t] = "unlock"]
    /\ UNCHANGED <<closed, mu, op, initFile, prior, nCalls, closeReturned>>

\* Append, second half: s.buf.Write(p); on success size grows by the payload
\* and the prefix, and (w + lenWidth, pos) is returned.
AppendPayload(t) ==
    /\ pc[t] = "AppendPayload"
    /\ \E d \in Faults :
         LET st == BufWrite(WState(d), op[t].p) IN
         /\ SetWriter(st)
         /\ IF st.e
            THEN /\ ret' = [ret EXCEPT ![t] = Err(0)]
                 /\ UNCHANGED <<size, appended>>
            ELSE /\ size' = size + (st.n + lenWidth)
                 /\ ret' = [ret EXCEPT ![t] =
                                Ok(st.n + lenWidth, op[t].lpos, <<>>)]
                 /\ appended' = Append(appended, <<op[t].lpos, op[t].p>>)
    /\ pc' = [pc EXCEPT ![t] = "unlock"]
    /\ UNCHANGED <<closed, mu, op, initFile, prior, nCalls, closeReturned>>

\* What Read(pos) returns once the flush went through: the length prefix is
\* read at pos and decoded, a slice of that length is made and read at
\* pos + lenWidth.
ReadRecord(f, isClosed, pos) ==
    LET hd == FileReadAt(f, isClosed, lenWidth, pos) IN
    IF hd.e THEN Err(0)
    ELSE IF ExceedsMaxAlloc(hd.data) THEN Panic
    ELSE IF ~HighZero(hd.data)
         \* a record of 2^24 bytes or more: the file is shorter
    THEN Err(0)
    ELSE LET rec == FileReadAt(f, isClosed, Uint64Low(hd.data),
                               pos + lenWidth) IN
         IF rec.e THEN Err(0) ELSE Ok(0, 0, rec.data)

\* Read as it would be without the flush.
Read_NoFlush(t) ==
    /\ pc[t] = "Read"
    /\ \E pos \in 0..(Len(Stream) + 1) :
         /\ op' = [op EXCEPT ![t].pos = pos]
         /\ ret' = [ret EXCEPT ![t] = ReadRecord(file, closed, pos)]
    /\ pc' = [pc EXCEPT ![t] = "unlock"]
    /\ UNCHANGED <<file, buf, berr, closed, size, mu, initFile, prior, appended,
                   nCalls, closeReturned>>

\* Read: flush, then read the record from the file.
Read(t) ==
    /\ pc[t] = "Read"
    /\ \E d \in Faults, pos \in 0..(Len(Stream) + 1) :
         LET st == Flush(WState(d)) IN
         /\ SetWriter(st)
         /\ op' = [op EXCEPT ![t].pos = pos]
         /\ ret' = [ret EXCEPT ![t] =
                IF st.e THEN Err(0)
                ELSE ReadRecord(st.file, closed, pos)]
    /\ pc' = [pc EXCEPT ![t] = "unlock"]
    /\ UNCHANGED <<closed, size, mu, initFile, prior, appended, nCalls,
                   closeReturned>>

\* ReadAt as it would be without the flush.
ReadAt_NoFlush(t) ==
    /\ pc[t] = "ReadAt"
    /\ \E n \in DestLens, off \in (-1)..(Len(Stream) + 1) :
         LET r == FileReadAt(file, closed, n, off) IN
         /\ op' = [op EXCEPT ![t].n = n, ![t].off = off]
         /\ ret' = [ret EXCEPT ![t] =
                IF r.e THEN [Err(r.n) EXCEPT !.data = r.data]
                ELSE Ok(r.n, 0, r.data)]
    /\ pc' = [pc EXCEPT ![t] = "unlock"]
    /\ UNCHANGED <<file, buf, berr, closed, size, mu, initFile, prior,
                   appended, nCalls, closeReturned>>

\* ReadAt: flush, then s.File.ReadAt(p, off).
ReadAt(t) ==
    /\ pc[t] = "ReadAt"
    /\ \E d \in Faults, n \in DestLens, off \in (-1)..(Len(Stream) + 1) :
         LET st == Flush(WState(d))
             r == FileReadAt(st.file, closed, n, off) IN
         /\ SetWriter(st)
         /\ op' = [op EXCEPT ![t].n = n, ![t].off = off]
         /\ ret' = [ret EXCEPT ![t] =
                IF st.e THEN Err(0)
                ELSE IF r.e THEN [Err(r.n) EXCEPT !.data = r.data]
                ELSE Ok(r.n, 0, r.data)]
    /\ pc' = [pc EXCEPT ![t] = "unlock"]
    /\ UNCHANGED <<closed, size, mu, initFile, prior, appended, nCalls,
                   closeReturned>>

\* Close as it would be without the flush.
Close_NoFlush(t) ==
    /\ pc[t] = "Close"
    /\ ret' = [ret EXCEPT ![t] = IF closed THEN Err(0) ELSE Ok(0, 0, <<>>)]
    /\ closed' = TRUE
    /\ pc' = [pc EXCEPT ![t] = "unlock"]
    /\ UNCHANGED <<file, buf, berr, size, mu, op, initFile, prior, appended, nCalls,
                   closeReturned>>

\* Close as it would be if the error of s.File.Close() were dropped.
Close_DropCloseError(t) ==
    /\ pc[t] = "Close"
    /\ \E d \in Faults :
         LET st == Flush(WState(d)) IN
         /\ SetWriter(st)
         /\ IF st.e
            THEN /\ ret' = [ret EXCEPT ![t] = Err(0)]
                 /\ UNCHANGED <<closed, prior>>
            ELSE /\ ret' = [ret EXCEPT ![t] = Ok(0, 0, <<>>)]
                 /\ closed' = TRUE
                 /\ prior' = IF closed \/ prior.reopened THEN prior
                             ELSE [prior EXCEPT !.size = size,
                                                !.recs = appended]
    /\ pc' = [pc EXCEPT ![t] = "unlock"]
    /\ UNCHANGED <<size, mu, op, initFile, appended, nCalls, closeReturned>>

\* Close as it would be if it closed the file whatever the flush returned.
Close_CloseAnyway(t) ==
    /\ pc[t] = "Close"
    /\ \E d \in Faults :
         LET st == Flush(WState(d)) IN
         /\ SetWriter(st)
         /\ ret' = [ret EXCEPT ![t] =
                IF st.e \/ closed THEN Err(0) ELSE Ok(0, 0, <<>>)]
    /\ closed' = TRUE
    /\ pc' = [pc EXCEPT ![t] = "unlock"]
    /\ UNCHANGED <<size, mu, op, initFile, prior, appended, nCalls,
                   closeReturned>>

\* Close: flush; if that worked, s.File.Close(), which fails on a file that
\* is closed already.
Close(t) ==
    /\ pc[t] = "Close"
    /\ \E d \in Faults :
         LET st == Flush(WState(d)) IN
         /\ SetWriter(st)
         /\ IF st.e
            THEN /\ ret' = [ret EXCEPT ![t] = Err(0)]
                 /\ UNCHANGED <<closed, prior>>
            ELSE /\ ret' = [ret EXCEPT ![t] =
                                IF closed THEN Err(0) ELSE Ok(0, 0, <<>>)]
                 /\ closed' = TRUE
                 /\ prior' = IF closed \/ prior.reopened THEN prior
                             ELSE [prior EXCEPT !.size = size,
                                                !.recs = appended]
    /\ pc' = [pc EXCEPT ![t] = "unlock"]
    /\ UNCHANGED <<size, mu, op, initFile, appended, nCalls, closeReturned>>

\* newStore over the file a closed store left behind: the file is opened
\* again (for appending), its size is taken from os.Stat and a new, empty
\* bufio.Writer is made.  The old store has written records, and its callers
\* have all returned.
Reopen_NoStat ==
    /\ closed /\ ~prior.reopened /\ prior.recs # <<>>
    /\ \A t \in Threads : pc[t] = "idle"
    /\ closed' = FALSE
    /\ buf' = <<>>
    /\ berr' = FALSE
    /\ size' = 0
    /\ initFile' = file
    /\ appended' = <<>>
    /\ closeReturned' = FALSE
    /\ prior' = [prior EXCEPT !.reopened = TRUE]
    /\ UNCHANGED <<file, mu, pc, op, ret, nCalls>>

Reopen ==
    /\ closed /\ ~prior.reopened /\ prior.recs # <<>>
    /\ \A t \in Threads : pc[t] = "idle"
    /\ closed' = FALSE
    /\ buf' = <<>>
    /\ berr' = FALSE
    /\ size' = Len(file)
    /\ initFile' = file
    /\ appended' = <<>>
    /\ closeReturned' = FALSE
    /\ prior' = [prior EXCEPT !.reopened = TRUE]
    /\ UNCHANGED <<file, mu, pc, op, ret, nCalls>>

\* defer s.mu.Unlock(), and the call returns ret[t] to its caller.
\* Unlock as it would be if only the successful return released the mutex.
Unlock_ErrorKeepsMutex(t) ==
    /\ pc[t] = "unlock"
    /\ mu' = IF ret[t].kind = "err" THEN mu ELSE 0
    /\ pc' = [pc EXCEPT ![t] = "idle"]
    /\ closeReturned' =
         (closeReturned \/ (op[t].name = "Close" /\ ret[t].kind = "ok"))
    /\ op' = [op EXCEPT ![t] = NoOp]
    /\ ret' = [ret EXCEPT ![t] = NoRet]
    /\ UNCHANGED <<file, closed, buf, berr, size, initFile, prior, appended, nCalls>>

\* The deferred s.mu.Unlock(): the call returns.
Unlock(t) ==
    /\ pc[t] = "unlock"
    /\ mu' = 0
    /\ pc' = [pc EXCEPT ![t] = "idle"]
    /\ closeReturned' =
         (closeReturned \/ (op[t].name = "Close" /\ ret[t].kind = "ok"))
    /\ op' = [op EXCEPT ![t] = NoOp]
    /\ ret' = [ret EXCEPT ![t] = NoRet]
    /\ UNCHANGED <<file, closed, buf, berr, size, initFile, prior, appended, nCalls>>

Next ==
    \E t \in Threads :
        \/ CallAppend(t)
        \/ CallRead(t)
        \/ CallReadAt(t)
        \/ CallClose(t)
        \/ Lock(t)
        \/ AppendPrefix(t)
        \/ AppendPayload(t)
        \/ Read(t)
        \/ ReadAt(t)
        \/ Close(t)
        \/ Unlock(t)

Spec == Init /\ [][Next]_vars

\* One step of goroutine t inside a call: the body of the operation, whose
\* I/O terminates, or the deferred Unlock.
Body(t) ==
    \/ AppendPrefix(t)
    \/ AppendPayload(t)
    \/ Read(t)
    \/ ReadAt(t)
    \/ Close(t)
    \/ Unlock(t)

\* The store used by clients that append once between them and read and
\* close freely.
NextProgress ==
    \E t \in Threads :
        \/ (nCalls = 0 /\ CallAppend(t))
        \/ CallRead(t)
        \/ CallReadAt(t)
        \/ CallClose(t)
        \/ Lock(t)
        \/ Body(t)

\* Scheduling: a goroutine inside a call keeps running (weak fairness), and
\* a goroutine waiting in s.mu.Lock() gets the mutex if it is free again and
\* again (sync.Mutex hands a starving waiter the lock: strong fairness).
FairProgress ==
    /\ Init
    /\ [][NextProgress]_vars
    /\ \A t \in Threads : WF_vars(Body(t)) /\ SF_vars(Lock(t))

\* The store, closed and constructed again over the same file (a restart),
\* used through Append, Read and Close.
NextReopen ==
    \/ \E t \in Threads :
          \/ CallAppend(t)
          \/ CallRead(t)
          \/ CallClose(t)
          \/ Lock(t)
          \/ AppendPrefix(t)
          \/ AppendPayload(t)
          \/ Read(t)
          \/ Close(t)
          \/ Unlock(t)
    \/ Reopen
SpecReopen == Init /\ [][NextReopen]_vars

\* ------------------------------------------------------------- properties
Pos(i) == appended[i][1]
Pay(i) == appended[i][2]
Appends == 1..Len(appended)

\* The frames of the first k successful Appends, in order.
RECURSIVE Frames(_)
Frames(k) == IF k = 0 THEN <<>> ELSE Frames(k - 1) \o Frame(Pay(k))

\* Goroutine t is about to return from a call of the named operation.
Returning(t, name) == pc[t] = "unlock" /\ op[t].name = name

\* C1: a Read at the position a successful Append returned, on a store whose
\* file is open and whose writer has not failed, returns that Append's
\* payload; the Read flushes by itself.
C1_ReadYourWrites ==
    \A t \in Threads : \A i \in Appends :
        (Returning(t, "Read") /\ op[t].pos = Pos(i) /\ ~closed /\ ~berr)
            => ret[t] = Ok(0, 0, Pay(i))

\* A Read is returning the non-empty payload of the second Append.
C1_Witness ==
    \E t \in Threads :
        /\ Returning(t, "Read") /\ ~closed /\ ~berr
        /\ Len(appended) = 2 /\ op[t].pos = Pos(2)
        /\ ret[t].kind = "ok" /\ ret[t].data = LongPayload

\* C2: the position of the i-th successful Append is the initial file size
\* plus 8 + len(payload) for each successful Append before it, and an Append
\* returns the position it was recorded at.
C2_PositionSequence ==
    /\ \A i \in Appends : Pos(i) = Len(initFile) + Len(Frames(i - 1))
    /\ \A t \in Threads :
         (Returning(t, "Append") /\ ret[t].kind = "ok")
             => ret[t].pos = Pos(Len(appended))

\* Two Appends succeeded on a store built over a non-empty file.
C2_Witness ==
    /\ Len(appended) = 2
    /\ initFile # <<>>
    /\ Pos(2) = Pos(1) + lenWidth + Len(Pay(1))
    /\ Pay(1) # <<>>

\* C3: the positions of successful Appends are pairwise distinct, and the
\* byte stream up to size is the initial file followed by the whole frames
\* of the successful Appends, each at its position.
C3_NoInterleaving ==
    /\ \A i, j \in Appends : i # j => Pos(i) # Pos(j)
    /\ Take(Stream, size) = initFile \o Frames(Len(appended))
    /\ \A i \in Appends :
         SubSeq(Stream, Pos(i) + 1, Pos(i) + lenWidth + Len(Pay(i)))
             = Frame(Pay(i))

\* An Append succeeded while another goroutine's Append waited for the lock.
C3_Witness ==
    \E t, u \in Threads :
        /\ t # u
        /\ Returning(t, "Append") /\ ret[t].kind = "ok"
        /\ pc[u] = "lock" /\ op[u].name = "Append"

\* C4: whenever no operation is inside its critical section, size is the
\* file's length plus the number of buffered bytes.
C4_SizeInvariant == mu = 0 => size = Len(file) + Len(buf)

\* C5: a call issued after a Close returned nil returns an error.
C5_PostCloseFails ==
    \A t \in Threads :
        (pc[t] = "unlock" /\ op[t].postClose) => ret[t].kind = "err"

\* C6: when Close returns nil the buffer is empty and the file is its
\* initial contents followed by the frames of the successful Appends in
\* position order.
C6_CloseDurability ==
    \A t \in Threads :
        (Returning(t, "Close") /\ ret[t].kind = "ok")
            => /\ buf = <<>>
               /\ file = initFile \o Frames(Len(appended))
               /\ Len(file) = size

\* Close is returning nil after two Appends, one with a payload.
C6_Witness ==
    \E t \in Threads :
        /\ Returning(t, "Close") /\ ret[t].kind = "ok"
        /\ Len(appended) = 2
        /\ Len(file) > Len(initFile) + 2 * lenWidth

\* Positions at which a record starts: those of the successful Appends and
\* that of the record an initial file holds.
RecordStarts ==
    {Pos(i) : i \in Appends} \cup (IF initFile = <<>> THEN {} ELSE {0})

\* C7: a Read at a position inside the written region that is no record's
\* start fails: it does not return a payload with a nil error.
C7_MisalignedFails ==
    \A t \in Threads :
        (Returning(t, "Read") /\ ~closed /\ ~berr
            /\ op[t].pos < size /\ op[t].pos \notin RecordStarts)
            => ret[t].kind # "ok"

\* C8: a Read whose prefix or payload would reach past the end of the file
\* returns an error, and a successful Read returns as many bytes as the
\* prefix says.
C8_RangeErrors ==
    \A t \in Threads :
        (Returning(t, "Read") /\ ~closed /\ ~berr) =>
            LET pos == op[t].pos
                hd == SubSeq(file, pos + 1, pos + lenWidth) IN
            IF pos + lenWidth > Len(file) THEN ret[t].kind = "err"
            ELSE IF ~HighZero(hd)
                    \/ pos + lenWidth + Uint64Low(hd) > Len(file)
            THEN ret[t].kind = "err"
            ELSE ret[t].kind = "ok" /\ Len(ret[t].data) = Uint64Low(hd)

\* C9: a successful Append(p) returns 8 + len(p) and leaves size that much
\* above the position it returns, with p's frame in between.
C9_AppendResult ==
    \A t \in Threads :
        (Returning(t, "Append") /\ ret[t].kind = "ok")
            => /\ ret[t].n = lenWidth + Len(op[t].p)
               /\ size = op[t].lpos + lenWidth + Len(op[t].p)
               /\ ret[t].pos = op[t].lpos
               /\ SubSeq(Stream, op[t].lpos + 1, size) = Frame(op[t].p)

\* An Append of the empty payload is returning 8.
C9_Witness ==
    \E t \in Threads :
        /\ Returning(t, "Append") /\ ret[t].kind = "ok"
        /\ op[t].p = <<>> /\ ret[t].n = 8
        /\ Len(appended) = 2

\* C10: an Append that returns an error returns n = 0 and pos = 0 and leaves
\* size at the value it had when the call took the lock.
C10_FailedAppendKeepsSize ==
    \A t \in Threads :
        (Returning(t, "Append") /\ ret[t].kind = "err")
            => ret[t].n = 0 /\ ret[t].pos = 0 /\ size = op[t].lpos

\* An Append is failing at the payload, its prefix already in the stream.
C10_Witness ==
    \E t \in Threads :
        /\ Returning(t, "Append") /\ ret[t].kind = "err"
        /\ ~closed
        /\ Len(Stream) >= size + lenWidth

\* C11: a store constructed over the file of a closed store starts with the
\* size the closed store had when its Close closed the file, its first
\* Append returns that size as its position, and a Read at the position of
\* a record of the closed store returns that record.
C11_ReopenConsistency ==
    prior.reopened =>
        /\ appended = <<>> => size = prior.size
        /\ appended # <<>> => Pos(1) = prior.size
        /\ \A t \in Threads :
             (Returning(t, "Append") /\ ret[t].kind = "ok"
                 /\ Len(appended) = 1) => ret[t].pos = prior.size
        /\ \A t \in Threads : \A i \in 1..Len(prior.recs) :
             (Returning(t, "Read") /\ ~closed /\ ~berr
                 /\ op[t].pos = prior.recs[i][1])
                 => ret[t] = Ok(0, 0, prior.recs[i][2])

\* After a restart and one more Append, a Read returns the payload the
\* closed store had appended.
C11_Witness ==
    \E t \in Threads :
        /\ prior.reopened /\ Len(prior.recs) = 1 /\ prior.size > 0
        /\ Len(appended) = 1 /\ Pos(1) = prior.size
        /\ Returning(t, "Read") /\ op[t].pos = prior.recs[1][1]
        /\ ret[t].kind = "ok" /\ ret[t].data = LongPayload

\* C12: a Close called after a Close returned nil returns an error, and the
\* file handle, once closed, is not closed a second time.
C12_SecondClose ==
    /\ [](\A t \in Threads :
            (Returning(t, "Close") /\ op[t].postClose)
                => ret[t].kind = "err")
    /\ [][closed => closed']_vars

\* A second Close is returning the closed-file error.
C12_Witness ==
    \E t \in Threads :
        /\ Returning(t, "Close") /\ op[t].postClose
        /\ closed /\ ~berr /\ ret[t].kind = "err"

\* C13: on an open store whose writer has not failed, ReadAt(p, off) at a
\* file offset off >= 0 has flushed the buffer; it returns len(p) and the
\* bytes at off, nil error, when off + len(p) <= size, and an error when
\* fewer than len(p) bytes lie at off.
C13_ReadAt ==
    \A t \in Threads :
        (Returning(t, "ReadAt") /\ ~closed /\ ~berr /\ op[t].off >= 0) =>
            LET n == op[t].n
                off == op[t].off IN
            /\ buf = <<>>
            /\ off + n <= size =>
                 /\ ret[t].kind = "ok"
                 /\ ret[t].n = n
                 /\ ret[t].data = SubSeq(file, off + 1, off + n)
            /\ Max(0, Len(file) - off) < n => ret[t].kind = "err"

\* ReadAt is returning the last two bytes of a record appended before it.
C13_Witness ==
    \E t \in Threads :
        /\ Returning(t, "ReadAt") /\ ~closed /\ ~berr
        /\ appended # <<>> /\ op[t].n = 2 /\ op[t].off + 2 = size
        /\ ret[t].kind = "ok" /\ ret[t].data = <<1, 1>>

\* C14: when Read, ReadAt or Close returns and its flush did not fail (the
\* writer carries no error), the buffer is empty and the file is as long as
\* size; when its flush failed, Read returns the error with a nil payload,
\* ReadAt returns 0 and the error, Close returns the error.
C14_FlushBeforeAccess ==
    \A t \in Threads :
        (pc[t] = "unlock" /\ op[t].name \in {"Read", "ReadAt", "Close"}) =>
            /\ ~berr => (buf = <<>> /\ Len(file) = size)
            /\ berr => ret[t] = Err(0)

\* A Read is returning after a flush that moved a whole frame to the file;
\* nothing was on disk when the store was made.
C14_Witness ==
    \E t \in Threads :
        /\ Returning(t, "Read") /\ ~berr /\ ~closed
        /\ initFile = <<>> /\ Len(appended) = 1
        /\ buf = <<>> /\ file = Frame(<<1>>)

\* Goroutine t is between s.mu.Lock() and the deferred s.mu.Unlock().
InCritical(t) == pc[t] \notin {"idle", "lock"}

\* C15: at most one goroutine is inside a critical section, the mutex is
\* held exactly by that goroutine (so it is free whenever no operation is
\* inside), and every call that was made returns: no goroutine stays inside
\* a call for ever.
C15_LockDiscipline ==
    /\ [](\A t, u \in Threads : (InCritical(t) /\ InCritical(u)) => t = u)
    /\ [](\A t \in Threads : InCritical(t) <=> mu = t)
    /\ \A t \in Threads : []<>(pc[t] = "idle")

\* A call waits for the mutex while the holder is returning an error.
C15_Witness ==
    \E t, u \in Threads :
        /\ pc[t] = "unlock" /\ ret[t].kind = "err" /\ mu = t
        /\ pc[u] = "lock"

\* C16: a step of Read or ReadAt leaves size, the records appended and the
\* byte stream (the file followed by the buffer) as they were; all it does
\* to them is move a prefix of the buffer to the end of the file.
C16_ReadsKeepLog ==
    [][\A t \in Threads :
         (pc[t] \in {"Read", "ReadAt"} /\ pc'[t] = "unlock")
         => /\ size' = size
            /\ appended' = appended
            /\ closed' = closed
            /\ file' \o buf' = file \o buf
            /\ Len(file') >= Len(file)]_vars

\* A Read returned a record after its flush emptied the buffer into the
\* file, and an earlier Append's position still reads back.
C16_Witness ==
    \E t \in Threads :
        /\ Returning(t, "Read") /\ ret[t].kind = "ok"
        /\ appended # <<>> /\ op[t].pos = Pos(1) /\ ret[t].data = Pay(1)
        /\ buf = <<>> /\ Len(file) > Len(initFile)

\* C17: when the flush inside Close fails, Close returns an error and does
\* not close the file: the handle is as open as it was, and the bytes the
\* flush did not write are still in the buffer, not in the file.
C17_CloseFlushFails ==
    [][\A t \in Threads :
         (pc[t] = "Close" /\ pc'[t] = "unlock" /\ berr')
         => /\ ret'[t].kind = "err"
            /\ closed' = closed
            /\ file' \o buf' = file \o buf
            /\ size' = size]_vars

\* Close returned the error of its own flush: the file is open, the buffer
\* still holds bytes, and no Close has succeeded.
C17_Witness ==
    \E t \in Threads :
        /\ Returning(t, "Close") /\ ret[t].kind = "err"
        /\ berr /\ ~closed /\ buf # <<>> /\ ~op[t].postClose

\* C18: once a write through the buffered writer has failed, the failure
\* stays, size never changes again, and every operation that returns from
\* then on returns an error: an Append tried again cannot succeed.
C18_WriteFailurePermanent ==
    /\ [](\A t \in Threads :
            (pc[t] = "unlock" /\ berr) => ret[t].kind = "err")
    /\ [][berr => (berr' /\ size' = size /\ appended' = appended)]_vars

\* An Append tried again after the first Append failed: it fails too.
C18_Witness ==
    \E t \in Threads :
        /\ Returning(t, "Append") /\ ret[t].kind = "err"
        /\ berr /\ nCalls = 2 /\ appended = <<>>
        /\ \A u \in Threads \ {t} : pc[u] = "idle"

====
